---- MODULE Spec2Model ----
(***************************************************************************)
(* The two SALOME driver scripts of the repository as one state machine:   *)
(*   SALOME/TEST/create_2d_square.py        (script = "square")            *)
(*   SALOME/AIRFOIL/1_BASE_DESIGN/base_design.py   (script = "probe")      *)
(* A state is the position of the running script (pc), the local objects   *)
(* it holds (verts, edges, all_edges, wire, face, solid, the rotated        *)
(* shapes, mesh), the log of the geompy/smesh calls it has made (calls),   *)
(* what it printed or logged                                               *)
(* (out), the STL files on disk (files), the functions' return values and  *)
(* the way the process ended (exc, exit_status).  The geometry and meshing *)
(* library is external: every call into it either returns or raises, and   *)
(* mesh.Compute() returns true or false or raises.                         *)
(* Lengths are integers in thousandths of a millimetre, so that the        *)
(* factor 0.293 of base_design.py:55 stays exact.                          *)
(***************************************************************************)
EXTENDS Integers, Sequences, FiniteSets, TLC

VARIABLES script, side_length, thickness, radius,
          pc, verts, edges, all_edges, wire, face, vector, solid,
          pitch_rotated, final_shape, mesh,
          calls, out, files, success_2d, success_3d, success,
          exc, exit_status

params == <<script, side_length, thickness, radius>>
geo    == <<verts, edges, all_edges, wire, face, vector, solid, pitch_rotated,
           final_shape, mesh>>
shapes == <<face, vector, solid, pitch_rotated, final_shape>>
rets   == <<success_2d, success_3d, success>>
ending == <<exc, exit_status>>
vars   == <<script, side_length, thickness, radius,
            pc, verts, edges, all_edges, wire, face, vector, solid,
            pitch_rotated, final_shape, mesh,
            calls, out, files, success_2d, success_3d, success,
            exc, exit_status>>

---------------------------------------------------------------------------
(* Bounds of the inputs the functions are called with. *)
MaxSide == 2
MaxThickness == 2
MaxRadius == 3

(* The values the scripts themselves pass. *)
MainSide == 20
MainThickness == 2
ProbeThickness == 1
ProbeRadius == 25
pitch_angle == 5
cone_angle == 5

Scale == 1000
Mm(x) == x * Scale

Sides == (0..MaxSide) \cup {MainSide}
Thicknesses == ((0 - MaxThickness)..MaxThickness) \cup {MainThickness, ProbeThickness}
Radii == (1..MaxRadius) \cup {ProbeRadius}

---------------------------------------------------------------------------
(* The library's constructors, by what they return. *)

MakeVertex(x, y, z) == <<x, y, z>>

\* a straight edge between two vertices
MakeEdge(p1, p2) == [s |-> p1, e |-> p2, pts |-> {p1, p2}]

\* an arc from p1 through p2 to p3
MakeArc(p1, p2, p3) == [s |-> p1, e |-> p3, pts |-> {p1, p2, p3}]

\* an arc about center c from pstart towards pend (both at the same distance of c
\* in every call of the scripts)
MakeArcCenter(c, pstart, pend) == [s |-> pstart, e |-> pend, pts |-> {pstart, pend}]

MakeVectorDXDYDZ(dx, dy, dz) == <<dx, dy, dz>>

Min(S) == CHOOSE x \in S : \A y \in S : x <= y
Max(S) == CHOOSE x \in S : \A y \in S : x >= y
Sgn(x) == IF x > 0 THEN 1 ELSE IF x < 0 THEN 0 - 1 ELSE 0

\* <<xmin, xmax, ymin, ymax, zmin, zmax>> of a set of points
BBox(P) == << Min({p[1] : p \in P}), Max({p[1] : p \in P}),
              Min({p[2] : p \in P}), Max({p[2] : p \in P}),
              Min({p[3] : p \in P}), Max({p[3] : p \in P}) >>

WirePoints(w) == UNION { w[i].pts : i \in 1..Len(w) }

\* end of edge i coincides with start of edge i+1, and the last with the first
Closed(es) == \A i \in 1..Len(es) : es[i].e = es[(i % Len(es)) + 1].s

NoShape == [kind |-> "none", bbox |-> <<0, 0, 0, 0, 0, 0>>, rot |-> <<>>]
NoMesh  == [shape |-> NoShape, algos |-> {}, hyps |-> {}, computed |-> "no"]

MakeFace(w) == [kind |-> "face", bbox |-> BBox(WirePoints(w)), rot |-> <<>>]

\* extrusion of a face along the direction of vec (axis-parallel here) by height h
MakePrismVecH(f, vec, h) ==
    LET d == <<Sgn(vec[1]) * h, Sgn(vec[2]) * h, Sgn(vec[3]) * h>>
        b == f.bbox
    IN [kind |-> "solid",
        bbox |-> << Min({b[1], b[1] + d[1]}), Max({b[2], b[2] + d[1]}),
                    Min({b[3], b[3] + d[2]}), Max({b[4], b[4] + d[2]}),
                    Min({b[5], b[5] + d[3]}), Max({b[6], b[6] + d[3]}) >>,
        rot |-> <<>>]

\* a copy of the shape rotated about an axis by an angle (degrees here)
MakeRotation(sh, axis, deg) ==
    [sh EXCEPT !.rot = Append(sh.rot, [axis |-> axis, deg |-> deg])]

\* face creation succeeds only on a closed wire
MakeFaceOutcomes(w) == IF Closed(w) THEN {"ok", "raise"} ELSE {"raise"}

---------------------------------------------------------------------------
(* The call log. *)

LibCall(fn, op, res) == [fn |-> fn, op |-> op, res |-> res]

\* all of ops returned
Returned(fn, ops) == [i \in 1..Len(ops) |-> LibCall(fn, ops[i], "ok")]

\* the k-th of ops raised
RaisedAt(fn, ops, k) ==
    [i \in 1..k |-> LibCall(fn, ops[i], IF i = k THEN "raise" ELSE "ok")]

Step(next, newcalls, msgs) ==
    /\ pc' = next
    /\ calls' = calls \o newcalls
    /\ out' = out \o msgs

---------------------------------------------------------------------------
Init ==
    /\ script \in {"square", "probe"}
    /\ side_length \in Sides
    /\ thickness \in Thicknesses
    /\ radius \in Radii
    /\ script = "square" => radius = ProbeRadius
    /\ script = "probe" => side_length = MainSide
    /\ pc = "start"
    /\ verts = <<>>
    /\ edges = <<>>
    /\ all_edges = <<>>
    /\ wire = <<>>
    /\ face = NoShape
    /\ vector = <<0, 0, 0>>
    /\ solid = NoShape
    /\ pitch_rotated = NoShape
    /\ final_shape = NoShape
    /\ mesh = NoMesh
    /\ calls = <<>>
    /\ out = <<>>
    /\ files = {}
    /\ success_2d = "unset"
    /\ success_3d = "unset"
    /\ success = "unset"
    /\ exc = "none"
    /\ exit_status = 0

---------------------------------------------------------------------------
(* create_2d_square.py, __main__ and create_2d_square                      *)

SQ2 == "create_2d_square"
SQ3 == "create_3d_square_plate"

\* lines 163-168: the banner, then the call of create_2d_square
main_square_start ==
    /\ pc = "start"
    /\ script = "square"
    /\ Step("sq2_vertices", <<>>, <<"SALOME 2D Square STL Generator", "Creating 2D square...">>)
    /\ UNCHANGED <<params, geo, files, rets, ending>>

\* lines 84-86: the outer handler of create_2d_square
Sq2Except(newcalls) ==
    /\ Step("main_3d", newcalls, <<"Error creating geometry">>)
    /\ success_2d' = "False"
    /\ UNCHANGED <<params, geo, files, success_3d, success, ending>>

\* lines 36-39
sq2_vertices ==
    /\ pc = "sq2_vertices"
    /\ LET ops == <<"MakeVertex", "MakeVertex", "MakeVertex", "MakeVertex">>
       IN \/ /\ Step("sq2_edges", Returned(SQ2, ops), <<>>)
             /\ verts' = [vertex1 |-> MakeVertex(0, 0, 0),
                          vertex2 |-> MakeVertex(Mm(side_length), 0, 0),
                          vertex3 |-> MakeVertex(Mm(side_length), Mm(side_length), 0),
                          vertex4 |-> MakeVertex(0, Mm(side_length), 0)]
             /\ UNCHANGED <<params, edges, all_edges, wire, shapes, mesh, files, rets, ending>>
          \/ \E k \in 1..Len(ops) : Sq2Except(RaisedAt(SQ2, ops, k))

\* lines 42-45
sq2_edges ==
    /\ pc = "sq2_edges"
    /\ LET ops == <<"MakeEdge", "MakeEdge", "MakeEdge", "MakeEdge">>
       IN \/ /\ Step("sq2_wire", Returned(SQ2, ops), <<>>)
             /\ edges' = [edge1 |-> MakeEdge(verts.vertex1, verts.vertex2),
                          edge2 |-> MakeEdge(verts.vertex2, verts.vertex3),
                          edge3 |-> MakeEdge(verts.vertex3, verts.vertex4),
                          edge4 |-> MakeEdge(verts.vertex4, verts.vertex1)]
             /\ UNCHANGED <<params, verts, all_edges, wire, shapes, mesh, files, rets, ending>>
          \/ \E k \in 1..Len(ops) : Sq2Except(RaisedAt(SQ2, ops, k))

\* line 48
sq2_wire ==
    /\ pc = "sq2_wire"
    /\ LET es == <<edges.edge1, edges.edge2, edges.edge3, edges.edge4>>
       IN \/ /\ Step("sq2_face", Returned(SQ2, <<"MakeWire">>), <<>>)
             /\ all_edges' = es
             /\ wire' = es
             /\ UNCHANGED <<params, verts, edges, shapes, mesh, files, rets, ending>>
          \/ /\ Step("main_3d", RaisedAt(SQ2, <<"MakeWire">>, 1), <<"Error creating geometry">>)
             /\ all_edges' = es
             /\ success_2d' = "False"
             /\ UNCHANGED <<params, verts, edges, wire, shapes, mesh, files,
                            success_3d, success, ending>>

\* line 51
sq2_face ==
    /\ pc = "sq2_face"
    /\ \E r \in MakeFaceOutcomes(wire) :
         \/ /\ r = "ok"
            /\ Step("sq2_study", Returned(SQ2, <<"MakeFace">>), <<>>)
            /\ face' = MakeFace(wire)
            /\ UNCHANGED <<params, verts, edges, all_edges, wire, vector, solid, pitch_rotated,
                           final_shape, mesh, files, rets, ending>>
         \/ /\ r = "raise"
            /\ Sq2Except(RaisedAt(SQ2, <<"MakeFace">>, 1))

\* lines 54-56
sq2_study ==
    /\ pc = "sq2_study"
    /\ \/ /\ Step("sq2_mesh", Returned(SQ2, <<"addToStudy">>), <<"Created 2D square">>)
          /\ UNCHANGED <<params, geo, files, rets, ending>>
       \/ Sq2Except(RaisedAt(SQ2, <<"addToStudy">>, 1))

\* line 59
sq2_mesh ==
    /\ pc = "sq2_mesh"
    /\ \/ /\ Step("sq2_algo_2d", Returned(SQ2, <<"Mesh">>), <<>>)
          /\ mesh' = [NoMesh EXCEPT !.shape = face]
          /\ UNCHANGED <<params, verts, edges, all_edges, wire, shapes, files, rets, ending>>
       \/ Sq2Except(RaisedAt(SQ2, <<"Mesh">>, 1))

\* lines 63-66
sq2_algo_2d ==
    /\ pc = "sq2_algo_2d"
    /\ LET ops == <<"Triangle", "MaxElementArea">>
       IN \/ /\ Step("sq2_compute", Returned(SQ2, ops), <<>>)
             /\ mesh' = [mesh EXCEPT !.algos = @ \cup {"Triangle"},
                                     !.hyps = @ \cup {<<"MaxElementArea", 1>>}]
             /\ UNCHANGED <<params, verts, edges, all_edges, wire, shapes, files, rets, ending>>
          \/ \E k \in 1..Len(ops) : Sq2Except(RaisedAt(SQ2, ops, k))

\* lines 69-73
sq2_compute ==
    /\ pc = "sq2_compute"
    /\ \/ /\ Step("sq2_export", <<LibCall(SQ2, "Compute", "true")>>, <<"Mesh generated successfully">>)
          /\ mesh' = [mesh EXCEPT !.computed = "true"]
          /\ UNCHANGED <<params, verts, edges, all_edges, wire, shapes, files, rets, ending>>
       \/ /\ Step("main_3d", <<LibCall(SQ2, "Compute", "false")>>, <<"Error: Failed to generate mesh">>)
          /\ mesh' = [mesh EXCEPT !.computed = "false"]
          /\ success_2d' = "False"
          /\ UNCHANGED <<params, verts, edges, all_edges, wire, shapes, files,
                         success_3d, success, ending>>
       \/ Sq2Except(RaisedAt(SQ2, <<"Compute">>, 1))

\* lines 76-82
sq2_export ==
    /\ pc = "sq2_export"
    /\ \/ /\ Step("main_3d", Returned(SQ2, <<"ExportSTL">>), <<"STL file exported successfully">>)
          /\ files' = files \cup {"square_2d.stl"}
          /\ success_2d' = "True"
          /\ UNCHANGED <<params, geo, success_3d, success, ending>>
       \/ /\ Step("main_3d", RaisedAt(SQ2, <<"ExportSTL">>, 1), <<"Error exporting STL">>)
          /\ success_2d' = "False"
          /\ UNCHANGED <<params, geo, files, success_3d, success, ending>>


---------------------------------------------------------------------------
(* create_2d_square.py, create_3d_square_plate and the rest of __main__    *)

\* main_3d with the second call skipped once the first has failed
main_3d_only_after_success ==
    /\ pc = "main_3d"
    /\ \/ /\ success_2d = "True"
          /\ Step("sq3_vertices", <<>>, <<"Creating 3D square plate...">>)
          /\ verts' = <<>>
          /\ edges' = <<>>
          /\ all_edges' = <<>>
          /\ wire' = <<>>
          /\ face' = NoShape
          /\ mesh' = NoMesh
          /\ UNCHANGED <<params, vector, solid, pitch_rotated, final_shape, files, rets, ending>>
       \/ /\ success_2d # "True"
          /\ Step("main_report", <<>>, <<>>)
          /\ success_3d' = "False"
          /\ UNCHANGED <<params, geo, files, success_2d, success, ending>>

\* lines 170-172: the call of create_3d_square_plate, whatever success_2d is
main_3d ==
    /\ pc = "main_3d"
    /\ Step("sq3_vertices", <<>>, <<"Creating 3D square plate...">>)
    /\ verts' = <<>>
    /\ edges' = <<>>
    /\ all_edges' = <<>>
    /\ wire' = <<>>
    /\ face' = NoShape
    /\ mesh' = NoMesh
    /\ UNCHANGED <<params, vector, solid, pitch_rotated, final_shape, files, rets, ending>>

\* lines 158-160: the outer handler of create_3d_square_plate
Sq3Except(newcalls) ==
    /\ Step("main_report", newcalls, <<"Error creating 3D geometry">>)
    /\ success_3d' = "False"
    /\ UNCHANGED <<params, geo, files, success_2d, success, ending>>

\* lines 101-104
sq3_vertices ==
    /\ pc = "sq3_vertices"
    /\ LET ops == <<"MakeVertex", "MakeVertex", "MakeVertex", "MakeVertex">>
       IN \/ /\ Step("sq3_edges", Returned(SQ3, ops), <<>>)
             /\ verts' = [vertex1 |-> MakeVertex(0, 0, 0),
                          vertex2 |-> MakeVertex(Mm(side_length), 0, 0),
                          vertex3 |-> MakeVertex(Mm(side_length), Mm(side_length), 0),
                          vertex4 |-> MakeVertex(0, Mm(side_length), 0)]
             /\ UNCHANGED <<params, edges, all_edges, wire, shapes, mesh, files, rets, ending>>
          \/ \E k \in 1..Len(ops) : Sq3Except(RaisedAt(SQ3, ops, k))

\* lines 107-110
sq3_edges ==
    /\ pc = "sq3_edges"
    /\ LET ops == <<"MakeEdge", "MakeEdge", "MakeEdge", "MakeEdge">>
       IN \/ /\ Step("sq3_wire", Returned(SQ3, ops), <<>>)
             /\ edges' = [edge1 |-> MakeEdge(verts.vertex1, verts.vertex2),
                          edge2 |-> MakeEdge(verts.vertex2, verts.vertex3),
                          edge3 |-> MakeEdge(verts.vertex3, verts.vertex4),
                          edge4 |-> MakeEdge(verts.vertex4, verts.vertex1)]
             /\ UNCHANGED <<params, verts, all_edges, wire, shapes, mesh, files, rets, ending>>
          \/ \E k \in 1..Len(ops) : Sq3Except(RaisedAt(SQ3, ops, k))

\* line 113
sq3_wire ==
    /\ pc = "sq3_wire"
    /\ LET es == <<edges.edge1, edges.edge2, edges.edge3, edges.edge4>>
       IN \/ /\ Step("sq3_face", Returned(SQ3, <<"MakeWire">>), <<>>)
             /\ all_edges' = es
             /\ wire' = es
             /\ UNCHANGED <<params, verts, edges, shapes, mesh, files, rets, ending>>
          \/ /\ Step("main_report", RaisedAt(SQ3, <<"MakeWire">>, 1),
                     <<"Error creating 3D geometry">>)
             /\ all_edges' = es
             /\ success_3d' = "False"
             /\ UNCHANGED <<params, verts, edges, wire, shapes, mesh, files,
                            success_2d, success, ending>>

\* line 114
sq3_face ==
    /\ pc = "sq3_face"
    /\ \E r \in MakeFaceOutcomes(wire) :
         \/ /\ r = "ok"
            /\ Step("sq3_vector", Returned(SQ3, <<"MakeFace">>), <<>>)
            /\ face' = MakeFace(wire)
            /\ UNCHANGED <<params, verts, edges, all_edges, wire, vector, solid, pitch_rotated,
                           final_shape, mesh, files, rets, ending>>
         \/ /\ r = "raise"
            /\ Sq3Except(RaisedAt(SQ3, <<"MakeFace">>, 1))

\* sq3_vector with the thickness in the X component
sq3_vector_along_x ==
    /\ pc = "sq3_vector"
    /\ \/ /\ Step("sq3_prism", Returned(SQ3, <<"MakeVectorDXDYDZ">>), <<>>)
          /\ vector' = MakeVectorDXDYDZ(Mm(thickness), 0, 0)
          /\ UNCHANGED <<params, verts, edges, all_edges, wire, face, solid, pitch_rotated,
                         final_shape, mesh, files, rets, ending>>
       \/ Sq3Except(RaisedAt(SQ3, <<"MakeVectorDXDYDZ">>, 1))

\* line 117
sq3_vector ==
    /\ pc = "sq3_vector"
    /\ \/ /\ Step("sq3_prism", Returned(SQ3, <<"MakeVectorDXDYDZ">>), <<>>)
          /\ vector' = MakeVectorDXDYDZ(0, 0, Mm(thickness))
          /\ UNCHANGED <<params, verts, edges, all_edges, wire, face, solid, pitch_rotated,
                         final_shape, mesh, files, rets, ending>>
       \/ Sq3Except(RaisedAt(SQ3, <<"MakeVectorDXDYDZ">>, 1))

\* line 120
sq3_prism ==
    /\ pc = "sq3_prism"
    /\ \/ /\ Step("sq3_study", Returned(SQ3, <<"MakePrismVecH">>), <<>>)
          /\ solid' = MakePrismVecH(face, vector, Mm(thickness))
          /\ UNCHANGED <<params, verts, edges, all_edges, wire, face, vector, pitch_rotated,
                         final_shape, mesh, files, rets, ending>>
       \/ Sq3Except(RaisedAt(SQ3, <<"MakePrismVecH">>, 1))

\* lines 123-125
sq3_study ==
    /\ pc = "sq3_study"
    /\ \/ /\ Step("sq3_mesh", Returned(SQ3, <<"addToStudy">>), <<"Created 3D square plate">>)
          /\ UNCHANGED <<params, geo, files, rets, ending>>
       \/ Sq3Except(RaisedAt(SQ3, <<"addToStudy">>, 1))

\* line 128
sq3_mesh ==
    /\ pc = "sq3_mesh"
    /\ \/ /\ Step("sq3_algos", Returned(SQ3, <<"Mesh">>), <<>>)
          /\ mesh' = [NoMesh EXCEPT !.shape = solid]
          /\ UNCHANGED <<params, verts, edges, all_edges, wire, shapes, files, rets, ending>>
       \/ Sq3Except(RaisedAt(SQ3, <<"Mesh">>, 1))

\* the algorithms and hypotheses a raise at the k-th of ops leaves on the mesh
Configured(m, ops, vals, k) ==
    [m EXCEPT !.algos = @ \cup {ops[i] : i \in {j \in 1..k : j % 2 = 1}},
              !.hyps = @ \cup {<<ops[i], vals[i]>> : i \in {j \in 1..k : j % 2 = 0}}]

\* lines 131-140
sq3_algos ==
    /\ pc = "sq3_algos"
    /\ LET ops == <<"Tetrahedron", "MaxElementVolume", "Triangle", "MaxElementArea",
                    "Segment", "NumberOfSegments">>
           vals == <<0, 2, 0, 1, 0, 10>>
       IN \/ /\ Step("sq3_compute", Returned(SQ3, ops), <<>>)
             /\ mesh' = Configured(mesh, ops, vals, Len(ops))
             /\ UNCHANGED <<params, verts, edges, all_edges, wire, shapes, files, rets, ending>>
          \/ \E k \in 1..Len(ops) :
                /\ Step("main_report", RaisedAt(SQ3, ops, k), <<"Error creating 3D geometry">>)
                /\ mesh' = Configured(mesh, ops, vals, k - 1)
                /\ success_3d' = "False"
                /\ UNCHANGED <<params, verts, edges, all_edges, wire, shapes, files,
                               success_2d, success, ending>>

\* lines 143-147
sq3_compute ==
    /\ pc = "sq3_compute"
    /\ \/ /\ Step("sq3_export", <<LibCall(SQ3, "Compute", "true")>>,
                  <<"3D mesh generated successfully">>)
          /\ mesh' = [mesh EXCEPT !.computed = "true"]
          /\ UNCHANGED <<params, verts, edges, all_edges, wire, shapes, files, rets, ending>>
       \/ /\ Step("main_report", <<LibCall(SQ3, "Compute", "false")>>,
                  <<"Error: Failed to generate 3D mesh">>)
          /\ mesh' = [mesh EXCEPT !.computed = "false"]
          /\ success_3d' = "False"
          /\ UNCHANGED <<params, verts, edges, all_edges, wire, shapes, files,
                         success_2d, success, ending>>
       \/ Sq3Except(RaisedAt(SQ3, <<"Compute">>, 1))

\* sq3_export with the handler of line 154 returning True
sq3_export_true_on_error ==
    /\ pc = "sq3_export"
    /\ \/ /\ Step("main_report", Returned(SQ3, <<"ExportSTL">>),
                  <<"3D STL file exported successfully">>)
          /\ files' = files \cup {"square_plate_3d.stl"}
          /\ success_3d' = "True"
          /\ UNCHANGED <<params, geo, success_2d, success, ending>>
       \/ /\ Step("main_report", RaisedAt(SQ3, <<"ExportSTL">>, 1), <<"Error exporting 3D STL">>)
          /\ success_3d' = "True"
          /\ UNCHANGED <<params, geo, files, success_2d, success, ending>>

\* lines 150-156
sq3_export ==
    /\ pc = "sq3_export"
    /\ \/ /\ Step("main_report", Returned(SQ3, <<"ExportSTL">>),
                  <<"3D STL file exported successfully">>)
          /\ files' = files \cup {"square_plate_3d.stl"}
          /\ success_3d' = "True"
          /\ UNCHANGED <<params, geo, success_2d, success, ending>>
       \/ /\ Step("main_report", RaisedAt(SQ3, <<"ExportSTL">>, 1), <<"Error exporting 3D STL">>)
          /\ success_3d' = "False"
          /\ UNCHANGED <<params, geo, files, success_2d, success, ending>>

\* lines 174-182: the script ends by falling off its end, with no exit code set
main_report ==
    /\ pc = "main_report"
    /\ Step("done", <<>>,
            IF success_2d = "True" /\ success_3d = "True"
            THEN <<"Both STL files created successfully!", "Script completed.">>
            ELSE <<"Some errors occurred during generation.", "Script completed.">>)
    /\ exit_status' = 0
    /\ UNCHANGED <<params, geo, files, rets, exc>>

NextSquare ==
    \/ main_square_start
    \/ sq2_vertices \/ sq2_edges \/ sq2_wire \/ sq2_face \/ sq2_study
    \/ sq2_mesh \/ sq2_algo_2d \/ sq2_compute \/ sq2_export
    \/ main_3d
    \/ sq3_vertices \/ sq3_edges \/ sq3_wire \/ sq3_face \/ sq3_vector \/ sq3_prism
    \/ sq3_study \/ sq3_mesh \/ sq3_algos \/ sq3_compute \/ sq3_export
    \/ main_report

---------------------------------------------------------------------------
(* base_design.py                                                          *)

PG == "create_probe_geometry"
FA == "add_flight_angles"
FM == "create_final_mesh_and_export"

\* base_design.py has no try/except: an exception of a library call leaves every
\* function and ends the interpreter with a traceback and exit status 1
Uncaught(newcalls) ==
    /\ Step("done", newcalls, <<"Traceback">>)
    /\ exc' = "Exception"
    /\ exit_status' = 1
    /\ UNCHANGED <<params, geo, files, rets>>

\* lines 152-153 and 37
main_probe_start ==
    /\ pc = "start"
    /\ script = "probe"
    /\ Step("pg_arc_bl", <<>>, <<"=== Starting Probe Design Generation ===",
                                 "Creating probe geometry">>)
    /\ UNCHANGED <<params, geo, files, rets, ending>>

\* lines 41-44
pg_arc_bl ==
    /\ pc = "pg_arc_bl"
    /\ LET ops == <<"MakeVertex", "MakeVertex", "MakeVertex", "MakeArcCenter">>
           v == [center_bl |-> MakeVertex(Mm(radius), Mm(radius), 0),
                        start_bl |-> MakeVertex(0, Mm(radius), 0),
                        end_bl |-> MakeVertex(Mm(radius), 0, 0)]
       IN \/ /\ Step("pg_arc_jutting_end", Returned(PG, ops), <<>>)
             /\ verts' = v @@ verts
             /\ edges' = [arc_bl |-> MakeArcCenter(v.center_bl, v.start_bl, v.end_bl)] @@ edges
             /\ UNCHANGED <<params, all_edges, wire, shapes, mesh, files, rets, ending>>
          \/ \E k \in 1..Len(ops) : Uncaught(RaisedAt(PG, ops, k))

\* lines 47-50
pg_arc_jutting_end ==
    /\ pc = "pg_arc_jutting_end"
    /\ LET ops == <<"MakeVertex", "MakeVertex", "MakeVertex", "MakeArc">>
           v == [start_jutting |-> MakeVertex(Mm(175), 0, 0),
                        end_jutting |-> MakeVertex(Mm(175), Mm(50), 0),
                        intermediate_jutting |-> MakeVertex(Mm(200), Mm(25), 0)]
       IN \/ /\ Step("pg_arc_inner", Returned(PG, ops), <<>>)
             /\ verts' = v @@ verts
             /\ edges' = [arc_jutting_end |-> MakeArc(v.start_jutting, v.intermediate_jutting, v.end_jutting)] @@ edges
             /\ UNCHANGED <<params, all_edges, wire, shapes, mesh, files, rets, ending>>
          \/ \E k \in 1..Len(ops) : Uncaught(RaisedAt(PG, ops, k))

\* lines 53-56
pg_arc_inner ==
    /\ pc = "pg_arc_inner"
    /\ LET ops == <<"MakeVertex", "MakeVertex", "MakeVertex", "MakeArc">>
           v == [start_inner |-> MakeVertex(Mm(100) + Mm(radius), Mm(50), 0),
                        end_inner |-> MakeVertex(Mm(100), Mm(50) + Mm(radius), 0),
                        intermediate_inner |-> MakeVertex(Mm(100) + radius * 293, Mm(50) + radius * 293, 0)]
       IN \/ /\ Step("pg_arc_trs", Returned(PG, ops), <<>>)
             /\ verts' = v @@ verts
             /\ edges' = [arc_inner |-> MakeArc(v.start_inner, v.intermediate_inner, v.end_inner)] @@ edges
             /\ UNCHANGED <<params, all_edges, wire, shapes, mesh, files, rets, ending>>
          \/ \E k \in 1..Len(ops) : Uncaught(RaisedAt(PG, ops, k))

\* lines 59-62
pg_arc_trs ==
    /\ pc = "pg_arc_trs"
    /\ LET ops == <<"MakeVertex", "MakeVertex", "MakeVertex", "MakeArcCenter">>
           v == [center_trs |-> MakeVertex(Mm(100) - Mm(radius), Mm(100) - Mm(radius), 0),
                        start_trs |-> MakeVertex(Mm(100), Mm(100) - Mm(radius), 0),
                        end_trs |-> MakeVertex(Mm(100) - Mm(radius), Mm(100), 0)]
       IN \/ /\ Step("pg_arc_tl", Returned(PG, ops), <<>>)
             /\ verts' = v @@ verts
             /\ edges' = [arc_trs |-> MakeArcCenter(v.center_trs, v.start_trs, v.end_trs)] @@ edges
             /\ UNCHANGED <<params, all_edges, wire, shapes, mesh, files, rets, ending>>
          \/ \E k \in 1..Len(ops) : Uncaught(RaisedAt(PG, ops, k))

\* lines 65-68
pg_arc_tl ==
    /\ pc = "pg_arc_tl"
    /\ LET ops == <<"MakeVertex", "MakeVertex", "MakeVertex", "MakeArcCenter">>
           v == [center_tl |-> MakeVertex(Mm(radius), Mm(100) - Mm(radius), 0),
                        start_tl |-> MakeVertex(Mm(radius), Mm(100), 0),
                        end_tl |-> MakeVertex(0, Mm(100) - Mm(radius), 0)]
       IN \/ /\ Step("pg_edge_bottom", Returned(PG, ops), <<>>)
             /\ verts' = v @@ verts
             /\ edges' = [arc_tl |-> MakeArcCenter(v.center_tl, v.start_tl, v.end_tl)] @@ edges
             /\ UNCHANGED <<params, all_edges, wire, shapes, mesh, files, rets, ending>>
          \/ \E k \in 1..Len(ops) : Uncaught(RaisedAt(PG, ops, k))

\* lines 72-74
pg_edge_bottom ==
    /\ pc = "pg_edge_bottom"
    /\ LET ops == <<"MakeVertex", "MakeVertex", "MakeEdge">>
           v == [p_bottom_start |-> MakeVertex(Mm(radius), 0, 0),
                        p_bottom_end |-> MakeVertex(Mm(175), 0, 0)]
       IN \/ /\ Step("pg_edge_top_jut", Returned(PG, ops), <<>>)
             /\ verts' = v @@ verts
             /\ edges' = [edge_bottom |-> MakeEdge(v.p_bottom_start, v.p_bottom_end)] @@ edges
             /\ UNCHANGED <<params, all_edges, wire, shapes, mesh, files, rets, ending>>
          \/ \E k \in 1..Len(ops) : Uncaught(RaisedAt(PG, ops, k))

\* lines 77-79
pg_edge_top_jut ==
    /\ pc = "pg_edge_top_jut"
    /\ LET ops == <<"MakeVertex", "MakeVertex", "MakeEdge">>
           v == [p_top_jut_start |-> MakeVertex(Mm(175), Mm(50), 0),
                        p_top_jut_end |-> MakeVertex(Mm(100) + Mm(radius), Mm(50), 0)]
       IN \/ /\ Step("pg_edge_top_sq", Returned(PG, ops), <<>>)
             /\ verts' = v @@ verts
             /\ edges' = [edge_top_jut |-> MakeEdge(v.p_top_jut_start, v.p_top_jut_end)] @@ edges
             /\ UNCHANGED <<params, all_edges, wire, shapes, mesh, files, rets, ending>>
          \/ \E k \in 1..Len(ops) : Uncaught(RaisedAt(PG, ops, k))

\* lines 82-84
pg_edge_top_sq ==
    /\ pc = "pg_edge_top_sq"
    /\ LET ops == <<"MakeVertex", "MakeVertex", "MakeEdge">>
           v == [p_top_sq_start |-> MakeVertex(Mm(100) - Mm(radius), Mm(100), 0),
                        p_top_sq_end |-> MakeVertex(Mm(radius), Mm(100), 0)]
       IN \/ /\ Step("pg_edge_left", Returned(PG, ops), <<>>)
             /\ verts' = v @@ verts
             /\ edges' = [edge_top_sq |-> MakeEdge(v.p_top_sq_start, v.p_top_sq_end)] @@ edges
             /\ UNCHANGED <<params, all_edges, wire, shapes, mesh, files, rets, ending>>
          \/ \E k \in 1..Len(ops) : Uncaught(RaisedAt(PG, ops, k))

\* lines 87-89
pg_edge_left ==
    /\ pc = "pg_edge_left"
    /\ LET ops == <<"MakeVertex", "MakeVertex", "MakeEdge">>
           v == [p_left_start |-> MakeVertex(0, Mm(100) - Mm(radius), 0),
                        p_left_end |-> MakeVertex(0, Mm(radius), 0)]
       IN \/ /\ Step("pg_wire", Returned(PG, ops), <<>>)
             /\ verts' = v @@ verts
             /\ edges' = [edge_left |-> MakeEdge(v.p_left_start, v.p_left_end)] @@ edges
             /\ UNCHANGED <<params, all_edges, wire, shapes, mesh, files, rets, ending>>
          \/ \E k \in 1..Len(ops) : Uncaught(RaisedAt(PG, ops, k))

\* lines 92-98
pg_wire ==
    /\ pc = "pg_wire"
    /\ LET es == <<edges.arc_bl, edges.edge_bottom, edges.arc_jutting_end,
                   edges.edge_top_jut, edges.arc_inner, edges.arc_trs,
                   edges.edge_top_sq, edges.arc_tl, edges.edge_left>>
       IN \/ /\ Step("pg_face", Returned(PG, <<"MakeWire">>), <<>>)
             /\ all_edges' = es
             /\ wire' = es
             /\ UNCHANGED <<params, verts, edges, shapes, mesh, files, rets, ending>>
          \/ /\ Step("done", RaisedAt(PG, <<"MakeWire">>, 1), <<"Traceback">>)
             /\ all_edges' = es
             /\ exc' = "Exception"
             /\ exit_status' = 1
             /\ UNCHANGED <<params, verts, edges, wire, shapes, mesh, files, rets>>

\* line 99
pg_face ==
    /\ pc = "pg_face"
    /\ \E r \in MakeFaceOutcomes(wire) :
         \/ /\ r = "ok"
            /\ Step("pg_vector", Returned(PG, <<"MakeFace">>), <<>>)
            /\ face' = MakeFace(wire)
            /\ UNCHANGED <<params, verts, edges, all_edges, wire, vector, solid, pitch_rotated,
                           final_shape, mesh, files, rets, ending>>
         \/ /\ r = "raise"
            /\ Uncaught(RaisedAt(PG, <<"MakeFace">>, 1))

\* line 102
pg_vector ==
    /\ pc = "pg_vector"
    /\ \/ /\ Step("pg_prism", Returned(PG, <<"MakeVectorDXDYDZ">>), <<>>)
          /\ vector' = MakeVectorDXDYDZ(0, 0, Mm(thickness))
          /\ UNCHANGED <<params, verts, edges, all_edges, wire, face, solid, pitch_rotated,
                         final_shape, mesh, files, rets, ending>>
       \/ Uncaught(RaisedAt(PG, <<"MakeVectorDXDYDZ">>, 1))

\* lines 103-106: the solid is what __main__ binds to probe_geometry (line 153)
pg_prism ==
    /\ pc = "pg_prism"
    /\ \/ /\ Step("fa_pitch", Returned(PG, <<"MakePrismVecH">>),
                  <<"Base probe geometry created successfully">>)
          /\ solid' = MakePrismVecH(face, vector, Mm(thickness))
          /\ UNCHANGED <<params, verts, edges, all_edges, wire, face, vector, pitch_rotated,
                         final_shape, mesh, files, rets, ending>>
       \/ Uncaught(RaisedAt(PG, <<"MakePrismVecH">>, 1))

\* lines 109-114: geometry is the solid create_probe_geometry returned
fa_pitch ==
    /\ pc = "fa_pitch"
    /\ LET ops == <<"MakeVectorDXDYDZ", "MakeRotation">>
       IN \/ /\ Step("fa_cone", Returned(FA, ops), <<"Applying flight angles">>)
             /\ pitch_rotated' = MakeRotation(solid, "X", pitch_angle)
             /\ UNCHANGED <<params, verts, edges, all_edges, wire, face, vector, solid,
                            final_shape, mesh, files, rets, ending>>
          \/ \E k \in 1..Len(ops) :
                /\ Step("done", RaisedAt(FA, ops, k), <<"Applying flight angles", "Traceback">>)
                /\ exc' = "Exception"
                /\ exit_status' = 1
                /\ UNCHANGED <<params, geo, files, rets>>

\* fa_cone with the cone rotation applied to geometry instead of pitch_rotated
fa_cone_of_geometry ==
    /\ pc = "fa_cone"
    /\ LET ops == <<"MakeVectorDXDYDZ", "MakeRotation">>
       IN \/ /\ Step("fm_mesh", Returned(FA, ops), <<"Flight angles applied successfully">>)
             /\ final_shape' = MakeRotation(solid, "Y", cone_angle)
             /\ UNCHANGED <<params, verts, edges, all_edges, wire, face, vector, solid,
                            pitch_rotated, mesh, files, rets, ending>>
          \/ \E k \in 1..Len(ops) : Uncaught(RaisedAt(FA, ops, k))

\* lines 117-122
fa_cone ==
    /\ pc = "fa_cone"
    /\ LET ops == <<"MakeVectorDXDYDZ", "MakeRotation">>
       IN \/ /\ Step("fm_mesh", Returned(FA, ops), <<"Flight angles applied successfully">>)
             /\ final_shape' = MakeRotation(pitch_rotated, "Y", cone_angle)
             /\ UNCHANGED <<params, verts, edges, all_edges, wire, face, vector, solid,
                            pitch_rotated, mesh, files, rets, ending>>
          \/ \E k \in 1..Len(ops) : Uncaught(RaisedAt(FA, ops, k))

\* lines 125-128: geometry is final_geometry, the shape add_flight_angles returned
fm_mesh ==
    /\ pc = "fm_mesh"
    /\ \/ /\ Step("fm_algos", Returned(FM, <<"Mesh">>), <<"Creating mesh and exporting">>)
          /\ mesh' = [NoMesh EXCEPT !.shape = final_shape]
          /\ UNCHANGED <<params, verts, edges, all_edges, wire, shapes, files, rets, ending>>
       \/ /\ Step("done", RaisedAt(FM, <<"Mesh">>, 1), <<"Creating mesh and exporting", "Traceback">>)
          /\ exc' = "Exception"
          /\ exit_status' = 1
          /\ UNCHANGED <<params, geo, files, rets>>

\* lines 131-140
fm_algos ==
    /\ pc = "fm_algos"
    /\ LET ops == <<"Tetrahedron", "MaxElementVolume", "Triangle", "MaxElementArea",
                    "Segment", "NumberOfSegments">>
           vals == <<0, 200, 0, 50, 0, 8>>
       IN \/ /\ Step("fm_compute", Returned(FM, ops), <<>>)
             /\ mesh' = Configured(mesh, ops, vals, Len(ops))
             /\ UNCHANGED <<params, verts, edges, all_edges, wire, shapes, files, rets, ending>>
          \/ \E k \in 1..Len(ops) :
                /\ Step("done", RaisedAt(FM, ops, k), <<"Traceback">>)
                /\ mesh' = Configured(mesh, ops, vals, k - 1)
                /\ exc' = "Exception"
                /\ exit_status' = 1
                /\ UNCHANGED <<params, verts, edges, all_edges, wire, shapes, files, rets>>

\* fm_compute with the result of mesh.Compute() ignored
fm_compute_unchecked ==
    /\ pc = "fm_compute"
    /\ \/ \E r \in {"true", "false"} :
            /\ Step("fm_export", <<LibCall(FM, "Compute", r)>>, <<>>)
            /\ mesh' = [mesh EXCEPT !.computed = r]
            /\ UNCHANGED <<params, verts, edges, all_edges, wire, shapes, files, rets, ending>>
       \/ Uncaught(RaisedAt(FM, <<"Compute">>, 1))

\* lines 143 and 147-149
fm_compute ==
    /\ pc = "fm_compute"
    /\ \/ /\ Step("fm_export", <<LibCall(FM, "Compute", "true")>>, <<>>)
          /\ mesh' = [mesh EXCEPT !.computed = "true"]
          /\ UNCHANGED <<params, verts, edges, all_edges, wire, shapes, files, rets, ending>>
       \/ /\ Step("main_probe_report", <<LibCall(FM, "Compute", "false")>>,
                  <<"Mesh generation failed">>)
          /\ mesh' = [mesh EXCEPT !.computed = "false"]
          /\ success' = "False"
          /\ UNCHANGED <<params, verts, edges, all_edges, wire, shapes, files,
                         success_2d, success_3d, ending>>
       \/ Uncaught(RaisedAt(FM, <<"Compute">>, 1))

\* lines 144-146
fm_export ==
    /\ pc = "fm_export"
    /\ \/ /\ Step("main_probe_report", Returned(FM, <<"ExportSTL">>),
                  <<"STL file successfully exported">>)
          /\ files' = files \cup {"base_design.stl"}
          /\ success' = "True"
          /\ UNCHANGED <<params, geo, success_2d, success_3d, ending>>
       \/ Uncaught(RaisedAt(FM, <<"ExportSTL">>, 1))

\* main_probe_report with the exit(1) of line 160 left out
main_probe_report_no_exit ==
    /\ pc = "main_probe_report"
    /\ Step("done", <<>>,
            IF success = "True"
            THEN <<"=== Probe Design Generation Completed Successfully ===">>
            ELSE <<"=== Probe Design Generation Failed ===">>)
    /\ exit_status' = 0
    /\ UNCHANGED <<params, geo, files, rets, exc>>

\* lines 156-160: exit(1) raises SystemExit, which ends the interpreter with status 1
main_probe_report ==
    /\ pc = "main_probe_report"
    /\ \/ /\ success = "True"
          /\ Step("done", <<>>, <<"=== Probe Design Generation Completed Successfully ===">>)
          /\ exit_status' = 0
          /\ UNCHANGED <<params, geo, files, rets, exc>>
       \/ /\ success # "True"
          /\ Step("done", <<>>, <<"=== Probe Design Generation Failed ===">>)
          /\ exc' = "SystemExit"
          /\ exit_status' = 1
          /\ UNCHANGED <<params, geo, files, rets>>

NextProbe ==
    \/ main_probe_start
    \/ pg_arc_bl \/ pg_arc_jutting_end \/ pg_arc_inner \/ pg_arc_trs \/ pg_arc_tl
    \/ pg_edge_bottom \/ pg_edge_top_jut \/ pg_edge_top_sq \/ pg_edge_left
    \/ pg_wire \/ pg_face \/ pg_vector \/ pg_prism
    \/ fa_pitch \/ fa_cone
    \/ fm_mesh \/ fm_algos \/ fm_compute \/ fm_export
    \/ main_probe_report

Next == NextSquare \/ NextProbe

Spec == Init /\ [][Next]_vars

---------------------------------------------------------------------------
(* What the claims speak of, read off the call log. *)

Idx == 1..Len(calls)
MeshFns == {SQ2, SQ3, FM}
ProbeFns == {PG, FA, FM}
Hypotheses == {"MaxElementArea", "MaxElementVolume", "NumberOfSegments"}

\* the size hypotheses each function sets before the mesh is computed
HypsSetBy(fn) == IF fn = SQ2 THEN {"MaxElementArea"} ELSE Hypotheses

OutputFile(fn) == IF fn = SQ2 THEN "square_2d.stl"
                  ELSE IF fn = SQ3 THEN "square_plate_3d.stl" ELSE "base_design.stl"

\* the boolean the run of fn yields
Result(fn) == IF fn = SQ2 THEN success_2d ELSE IF fn = SQ3 THEN success_3d ELSE success

Called(fn, op) == {i \in Idx : calls[i].fn = fn /\ calls[i].op = op}
CalledWith(fn, op, res) == {i \in Called(fn, op) : calls[i].res = res}
Failed(c) == c.res \in {"raise", "false"}
Said(msg) == \E i \in 1..Len(out) : out[i] = msg

\* the function has returned to the main block (or the script has ended)
Finished2D == script = "square" /\ pc \notin {"start", "sq2_vertices", "sq2_edges", "sq2_wire",
                    "sq2_face", "sq2_study", "sq2_mesh", "sq2_algo_2d", "sq2_compute", "sq2_export"}
Finished3D == script = "square" /\ pc \in {"main_report", "done"}

\* no library call of fn raised, its mesh was computed and its export returned
AllSucceeded(fn) ==
    /\ \A i \in Idx : calls[i].fn = fn => calls[i].res # "raise"
    /\ CalledWith(fn, "Compute", "true") # {}
    /\ CalledWith(fn, "ExportSTL", "ok") # {}

\* the stage of the pipeline a library call of the probe script belongs to:
\* 1 profile, 2 solid, 3 orientation, 4 mesh, 5 export
Stage(c) ==
    IF c.fn = PG
    THEN (IF c.op \in {"MakeFace", "MakeVectorDXDYDZ", "MakePrismVecH"} THEN 2 ELSE 1)
    ELSE IF c.fn = FA THEN 3
    ELSE IF c.op = "ExportSTL" THEN 5 ELSE 4

Pitch == [axis |-> "X", deg |-> pitch_angle]
Cone == [axis |-> "Y", deg |-> cone_angle]

---------------------------------------------------------------------------
\* C1: in create_2d_square, create_3d_square_plate and create_final_mesh_and_export
\* every size hypothesis is set before mesh.Compute() is called, mesh.ExportSTL() is
\* called only after mesh.Compute() has returned true, and when Compute() returned
\* false ExportSTL() is never called and the function's STL file is not written.
C1_Lifecycle ==
    \A fn \in MeshFns :
        /\ \A i \in Idx : (calls[i].fn = fn /\ calls[i].op \in Hypotheses)
                => \A j \in Called(fn, "Compute") : i < j
        /\ \A j \in Called(fn, "Compute") :
                HypsSetBy(fn) = {calls[i].op : i \in {k \in 1..(j - 1) :
                                    /\ calls[k].fn = fn
                                    /\ calls[k].op \in Hypotheses
                                    /\ calls[k].res = "ok"}}
        /\ \A i \in Called(fn, "ExportSTL") :
                \E j \in CalledWith(fn, "Compute", "true") : j < i
        /\ CalledWith(fn, "Compute", "false") # {}
                => Called(fn, "ExportSTL") = {} /\ OutputFile(fn) \notin files
        /\ OutputFile(fn) \in files => CalledWith(fn, "Compute", "true") # {}

\* a run in which one mesh failed to compute and another was computed and exported
C1_Witness ==
    /\ pc = "done"
    /\ CalledWith(SQ2, "Compute", "false") # {}
    /\ CalledWith(SQ3, "ExportSTL", "ok") # {}
    /\ files = {"square_plate_3d.stl"}

\* C2: whichever library call raises in create_2d_square, create_3d_square_plate,
\* create_probe_geometry, add_flight_angles or create_final_mesh_and_export, the
\* exception does not leave the script's function: a message is printed or logged
\* and the result of the run is the boolean False.
C2_ErrorsCaught ==
    \A i \in Idx : calls[i].res = "raise" =>
        /\ exc # "Exception"
        /\ Result(calls[i].fn) = "False"
        /\ \/ Said("Error creating geometry") \/ Said("Error exporting STL")
           \/ Said("Error creating 3D geometry") \/ Said("Error exporting 3D STL")
           \/ Said("Mesh generation failed")
           \/ Said("=== Probe Design Generation Failed ===")

\* C3 (as claimed): once a stage has failed, no later library call is made in that
\* run of the script.
C3_FirstFailureEndsRun ==
    \A i \in Idx : Failed(calls[i]) => i = Len(calls)

\* C3 (amended): a failure ends the function it happens in, and in the probe script
\* the whole run; the main block of the square script calls create_3d_square_plate
\* whatever create_2d_square returned, so the only library calls after a failure
\* are those of create_3d_square_plate after a failure in create_2d_square.
C3_FirstFailureEndsFunction ==
    /\ \A i \in Idx : Failed(calls[i]) =>
          \A j \in Idx : j > i =>
              /\ script = "square"
              /\ calls[i].fn = SQ2
              /\ calls[j].fn = SQ3
    /\ (script = "square" /\ pc = "done") => \E j \in Idx : calls[j].fn = SQ3

\* create_2d_square has failed and create_3d_square_plate has run to its export
C3_Witness ==
    /\ pc = "done"
    /\ success_2d = "False"
    /\ \E i \in Idx : calls[i].fn = SQ2 /\ Failed(calls[i])
    /\ CalledWith(SQ3, "ExportSTL", "ok") # {}

\* C4: the probe script ends with a non-zero exit status whenever mesh.Compute()
\* fails or the STL export fails, and it logs 'Completed Successfully' and ends
\* without exit(1) only when Compute() returned true and ExportSTL() returned.
C4_ProbeExitStatus ==
    (script = "probe" /\ pc = "done") =>
        /\ (\E i \in Called(FM, "Compute") \cup Called(FM, "ExportSTL") : Failed(calls[i]))
              => exit_status # 0
        /\ (Said("=== Probe Design Generation Completed Successfully ===")
                \/ exit_status = 0)
              => /\ CalledWith(FM, "Compute", "true") # {}
                 /\ CalledWith(FM, "ExportSTL", "ok") # {}
                 /\ exc = "none"
                 /\ exit_status = 0
                 /\ Said("=== Probe Design Generation Completed Successfully ===")

\* the mesh was computed and its export failed
C4_Witness ==
    /\ script = "probe"
    /\ pc = "done"
    /\ CalledWith(FM, "Compute", "true") # {}
    /\ CalledWith(FM, "ExportSTL", "raise") # {}
    /\ exit_status = 1

\* C5: for every radius_mm the nine edges of all_edges chain into a closed loop,
\* and so do the four edges of the square for every side_length.
C5_ClosedWire ==
    all_edges # <<>> => Closed(all_edges)

\* C6: with thickness <= 0, when the extrusion or the mesh computation fails, the
\* run of create_3d_square_plate, or of the probe pipeline, prints or logs a failure
\* message, yields False, writes no STL file and ends without an unhandled exception.
C6_DegenerateFailsGracefully ==
    \A fn \in {SQ3, PG, FM} :
        (/\ pc = "done"
         /\ thickness <= 0
         /\ \E i \in Idx : /\ calls[i].fn = fn
                           /\ calls[i].op \in {"MakeVectorDXDYDZ", "MakePrismVecH", "Compute"}
                           /\ Failed(calls[i]))
        => /\ exc # "Exception"
           /\ Result(fn) = "False"
           /\ OutputFile(fn) \notin files
           /\ \/ Said("Error creating 3D geometry") \/ Said("Error: Failed to generate 3D mesh")
              \/ Said("Mesh generation failed")

\* C7: for side_length S > 0 and thickness T > 0 the solid create_3d_square_plate
\* hands to the mesher is the square (0,0,0), (S,0,0), (S,S,0), (0,S,0) extruded by T
\* along +Z, with bounding box [0,S] x [0,S] x [0,T] ([0,20] x [0,20] x [0,2] for the
\* main call), and no rotation is applied to it up to the export.
C7_PlateSolid ==
    (/\ script = "square"
     /\ side_length > 0
     /\ thickness > 0
     /\ CalledWith(SQ3, "Mesh", "ok") # {})
    => /\ wire = << MakeEdge(<<0, 0, 0>>, <<Mm(side_length), 0, 0>>),
                    MakeEdge(<<Mm(side_length), 0, 0>>, <<Mm(side_length), Mm(side_length), 0>>),
                    MakeEdge(<<Mm(side_length), Mm(side_length), 0>>, <<0, Mm(side_length), 0>>),
                    MakeEdge(<<0, Mm(side_length), 0>>, <<0, 0, 0>>) >>
       /\ mesh.shape = [kind |-> "solid",
                        bbox |-> <<0, Mm(side_length), 0, Mm(side_length), 0, Mm(thickness)>>,
                        rot |-> <<>>]
       /\ (side_length = MainSide /\ thickness = MainThickness)
             => mesh.shape.bbox = <<0, 20000, 0, 20000, 0, 2000>>
       /\ Called(SQ3, "MakeRotation") = {}

\* the plate of the main call has been exported
C7_Witness ==
    /\ script = "square"
    /\ side_length = MainSide
    /\ thickness = MainThickness
    /\ pc = "done"
    /\ "square_plate_3d.stl" \in files

\* MakeWire, MakeFace, MakePrismVecH, Compute and ExportSTL are each called at most
\* once in a call of create_2d_square, of create_3d_square_plate and in the probe
\* pipeline, whatever their outcome.
NoRetry ==
    \A op \in {"MakeWire", "MakeFace", "MakePrismVecH", "Compute", "ExportSTL"} :
        /\ Cardinality(Called(SQ2, op)) <= 1
        /\ Cardinality(Called(SQ3, op)) <= 1
        /\ Cardinality(UNION {Called(fn, op) : fn \in ProbeFns}) <= 1

\* C8: the scripts do not retry or repair: each of the five calls is made at most
\* once per function call or pipeline, and a failure of one of them is reported
\* only as a boolean and a printed or logged message.
C8_NoRetryFailureReported ==
    /\ NoRetry
    /\ pc = "done" =>
          \A i \in Idx :
              (/\ calls[i].op \in {"MakeWire", "MakeFace", "MakePrismVecH", "Compute", "ExportSTL"}
               /\ Failed(calls[i]))
              => Result(calls[i].fn) = "False" /\ exc # "Exception"


\* C9: the probe script runs profile -> solid -> orientation -> mesh -> export in
\* that order; add_flight_angles applies exactly two rotations, the pitch about X to
\* the extruded solid and then the cone about Y to the result of the pitch; the shape
\* meshed and exported is the result of the second rotation.  The square script
\* applies no rotation.
C9_ProbeOrderAndRotations ==
    /\ script = "probe" =>
          /\ \A i, j \in Idx : i < j => Stage(calls[i]) <= Stage(calls[j])
          /\ \A i \in Idx : calls[i].fn = FA => CalledWith(PG, "MakePrismVecH", "ok") # {}
          /\ \A i \in Idx : calls[i].fn = FM =>
                Cardinality(CalledWith(FA, "MakeRotation", "ok")) = 2
          /\ \A i \in Idx : calls[i].op = "MakeRotation" => calls[i].fn = FA
          /\ Cardinality(Called(FA, "MakeRotation")) <= 2
          /\ Cardinality(CalledWith(FA, "MakeRotation", "ok")) >= 1
                => pitch_rotated = [solid EXCEPT !.rot = <<Pitch>>]
          /\ Cardinality(CalledWith(FA, "MakeRotation", "ok")) = 2
                => final_shape = [solid EXCEPT !.rot = <<Pitch, Cone>>]
          /\ CalledWith(FM, "Mesh", "ok") # {}
                => /\ mesh.shape = final_shape
                   /\ mesh.shape.kind = "solid"
                   /\ mesh.shape.rot = <<Pitch, Cone>>
    /\ script = "square" =>
          /\ \A i \in Idx : calls[i].op # "MakeRotation"
          /\ face.rot = <<>> /\ solid.rot = <<>> /\ mesh.shape.rot = <<>>

\* the probe script has run through to the exported file
C9_Witness ==
    /\ script = "probe"
    /\ pc = "done"
    /\ "base_design.stl" \in files
    /\ mesh.shape.rot = <<Pitch, Cone>>

\* C10: create_2d_square and create_3d_square_plate never raise for a library
\* exception and return a boolean, True exactly when every library call returned,
\* mesh.Compute() returned true and mesh.ExportSTL() returned; the main block prints
\* 'Both STL files created successfully!' exactly when both returned True, and sets
\* no exit code on failure.
C10_SquareReturns ==
    script = "square" =>
        /\ exc = "none"
        /\ exit_status = 0
        /\ Finished2D => /\ success_2d \in {"True", "False"}
                         /\ success_2d = "True" <=> AllSucceeded(SQ2)
        /\ Finished3D => /\ success_3d \in {"True", "False"}
                         /\ success_3d = "True" <=> AllSucceeded(SQ3)
        /\ pc = "done" =>
              /\ Said("Both STL files created successfully!")
                    <=> (success_2d = "True" /\ success_3d = "True")
              /\ Said("Some errors occurred during generation.")
                    <=> ~(success_2d = "True" /\ success_3d = "True")

\* the first function returned True and the export of the second raised
C10_Witness ==
    /\ script = "square"
    /\ pc = "done"
    /\ success_2d = "True"
    /\ success_3d = "False"
    /\ CalledWith(SQ3, "ExportSTL", "raise") # {}
    /\ Said("Some errors occurred during generation.")


====
